---- MODULE Spec2Model ----
(***************************************************************************)
(* TrelicaLogPuller (src/audit-logs/index.js): the bookmark-driven         *)
(* incremental pull of audit logs.  One pullLogs run is a sequence of      *)
(* steps, one per await of the code; runs follow each other on the same    *)
(* bookmark file and output file, against a fixed paginated source.        *)
(***************************************************************************)
EXTENDS Integers, Sequences, FiniteSets, TLC

(* ------------------------------ bounds -------------------------------- *)
\* source-issued continuation locators are numbered 1..MaxPage
MaxPage == 1
\* a page carries 0..MaxPageLen records
MaxPageLen == 1
\* number of pullLogs runs (also the range of the clock)
MaxRuns == 2
\* data requests issued in one run
MaxFetches == 2
\* INITIAL_LOOKBACK_MONTHS is set to 0..MaxMonths
MaxMonths == 13

VARIABLES
    now,              \* clock: one tick per run (new Date())
    source,           \* the remote API: page served for each locator, as far
                      \* as it has been asked (a page never changes afterwards)
    bookmarkFile,     \* contents of this.bookmarkFile on disk
    outputFile,       \* contents of this.outputFile on disk
    pc,               \* position of the current run inside pullLogs
    accessToken,      \* this.accessToken
    bookmark,         \* this.bookmark
    response,         \* pullLogs: const response
    logs,             \* pullLogs: const logs
    existingLogs,     \* appendLogsToFile: let existingLogs
    totalLogsPulled,  \* pullLogs: let totalLogsPulled
    hasMore,          \* pullLogs: let hasMore
    error,            \* the error thrown by the run, if any
    run,              \* history of the current run
    prev,             \* history of the previous run
    interruptedLast,  \* pages that were the last page fetched by an aborted run
    peer,             \* a second instance run against the same two files
    seed              \* the seed of loadBookmark, worked out on the calendar

vars == <<now, source, bookmarkFile, outputFile, pc, accessToken, bookmark,
          response, logs, existingLogs, totalLogsPulled, hasMore, error,
          run, prev, interruptedLast, peer, seed>>

(* ------------------------------ values -------------------------------- *)
\* JavaScript null and undefined, and an absent `next`
Null == <<"null", 0>>
Undefined == <<"undefined", 0>>
NoNext == <<"none", 0>>
\* data.access_token of a successful token response
BearerToken == <<"token", 0>>

\* the locator loadBookmark builds when it finds no valid bookmark:
\* .../api/audit/v1/logs?limit=1000&since=<lookback date taken at time t>
SeedLocator(t) == <<"seed", t>>
\* a continuation locator issued by the source (`next`)
NextLocator(i) == <<"next", i>>

SeedLocators == {SeedLocator(t) : t \in 1..MaxRuns}
NextLocators == {NextLocator(i) : i \in 1..MaxPage}
Locators == SeedLocators \cup NextLocators
IsLocator(l) == l \in Locators

\* The page a locator addresses: every seed locator addresses the first page
\* of the log (page 0), a continuation locator the page it names.
PageIds == 0..MaxPage
PageOf(l) == IF l[1] = "seed" THEN 0 ELSE l[2]

\* The k-th record of page p.
Record(p, k) == <<p, k>>
\* A page: n records and an optional continuation locator.
Pages == [n : 0..MaxPageLen, next : {NoNext} \cup NextLocators]
\* A page of the source no request has asked for yet.
Unasked == [n |-> -1, next |-> NoNext]
RecordsOf(p, page) == [k \in 1..page.n |-> Record(p, k)]

\* JSON body of a successful GET: {results: [...], next?: ...}
ResponseOf(p, page) == [results |-> RecordsOf(p, page), next |-> page.next]
NoResponse == [results |-> <<>>, next |-> NoNext]

(* ------------------------------- files -------------------------------- *)
\* bookmark file: absent, unreadable, not valid JSON, valid JSON without a
\* nextUrl, or a bookmark written by the puller
BookmarkKinds == {"absent", "unreadable", "invalid", "nolocator", "valid"}
BookmarkFileOf(kind) ==
    [kind |-> kind, nextUrl |-> Null, lastUpdated |-> 0, note |-> FALSE]
\* BookmarkData with the fault of building the locator anew from the clock
\* in place of storing the one handed in
BookmarkDataRebuilt(nextUrl, t, note) ==
    [kind |-> "valid", nextUrl |-> <<"seed", t>>, lastUpdated |-> t,
     note |-> note]
BookmarkData(nextUrl, t, note) ==
    [kind |-> "valid", nextUrl |-> nextUrl, lastUpdated |-> t, note |-> note]

\* output file: absent, not valid JSON (e.g. cut short: `logs` are then the
\* records whose text the file still holds), or a JSON array
OutputFileOf(kind) == [kind |-> kind, logs |-> <<>>]
OutputData(all) == [kind |-> "valid", logs |-> all]

NoError == <<"none", 0>>
NewRun(t) ==
    [id |-> t, call |-> "pullLogs",
     bookmark0 |-> bookmarkFile, output0 |-> outputFile,
     start |-> Null, tokenRequests |-> 0, gets |-> <<>>, fetched |-> <<>>,
     appended |-> <<>>, outcome |-> "running", error |-> NoError]
NoRun ==
    [id |-> 0, call |-> "none", bookmark0 |-> BookmarkFileOf("absent"),
     output0 |-> OutputFileOf("absent"),
     start |-> Null, tokenRequests |-> 0, gets |-> <<>>, fetched |-> <<>>,
     appended |-> <<>>, outcome |-> "none", error |-> NoError]

Running == {"auth", "load", "fetch", "appendRead", "appendWrite", "save",
            "caughtUp", "delay"}
Ended == {"idle", "done", "failed", "crashed"}

\* the second instance: its fields, position in pullLogs, GETs sent and
\* pages appended
NoPeer ==
    [pc |-> "idle", accessToken |-> Null, bookmark |-> Null,
     response |-> NoResponse, logs |-> <<>>, existingLogs |-> <<>>,
     totalLogsPulled |-> 0, hasMore |-> TRUE, gets |-> 0, appended |-> <<>>]

\* no seed worked out: the value of INITIAL_LOOKBACK_MONTHS, new Date() as
\* <<year, month, day>>, this.initialLookbackMonths and the seed bookmark
NoSeed ==
    [pc |-> "none", env |-> Undefined, date |-> <<0, 0, 0>>,
     initialLookbackMonths |-> 0, bookmark |-> Null]

(* ------------------------------- Init --------------------------------- *)
Init ==
    /\ peer = NoPeer
    /\ seed = NoSeed
    /\ now = 0
    /\ source = [p \in PageIds |-> Unasked]
    /\ bookmarkFile \in {BookmarkFileOf(k) : k \in BookmarkKinds \ {"valid"}}
    /\ outputFile = OutputFileOf("absent")
    /\ pc = "idle"
    /\ accessToken = Null
    /\ bookmark = Null
    /\ response = NoResponse
    /\ logs = <<>>
    /\ existingLogs = <<>>
    /\ totalLogsPulled = 0
    /\ hasMore = TRUE
    /\ error = NoError
    /\ run = NoRun
    /\ prev = NoRun
    /\ interruptedLast = {}

(* --------------------------- constructor ------------------------------ *)
\* A new process: new TrelicaLogPuller(config); logPuller.pullLogs()
StartRun ==
    /\ pc \in Ended
    /\ now < MaxRuns
    /\ now' = now + 1
    /\ pc' = "auth"
    /\ accessToken' = Null
    /\ bookmark' = Null
    /\ response' = NoResponse
    /\ logs' = <<>>
    /\ existingLogs' = <<>>
    /\ totalLogsPulled' = 0
    /\ hasMore' = TRUE
    /\ error' = NoError
    /\ prev' = run
    /\ run' = NewRun(now + 1)
    /\ interruptedLast' =
          IF run.outcome \in {"failed", "crashed"} /\ Len(run.fetched) > 0
          THEN interruptedLast \cup {run.fetched[Len(run.fetched)]}
          ELSE interruptedLast
    /\ UNCHANGED <<source, bookmarkFile, outputFile, peer, seed>>

\* A caller of the exported class: new TrelicaLogPuller(config), then
\* logPuller.fetchLogs() with authenticate never called
CallFetchLogs ==
    /\ pc \in Ended
    /\ now < MaxRuns
    /\ now' = now + 1
    /\ pc' = "fetch"
    /\ accessToken' = Null
    /\ bookmark' = Null
    /\ response' = NoResponse
    /\ logs' = <<>>
    /\ existingLogs' = <<>>
    /\ totalLogsPulled' = 0
    /\ hasMore' = TRUE
    /\ error' = NoError
    /\ prev' = run
    /\ run' = [NewRun(now + 1) EXCEPT !.call = "fetchLogs"]
    /\ UNCHANGED <<source, bookmarkFile, outputFile, interruptedLast, peer,
                   seed>>

(* --------------------------- authenticate ----------------------------- *)
AuthenticateOk ==
    /\ pc = "auth"
    /\ accessToken' = BearerToken
    /\ pc' = "load"
    /\ run' = [run EXCEPT !.tokenRequests = @ + 1]
    /\ UNCHANGED <<now, source, bookmarkFile, outputFile, bookmark, response,
                   logs, existingLogs, totalLogsPulled, hasMore, error, prev,
                   interruptedLast, peer, seed>>

\* AuthenticateFail with the fault of not throwing: the access_token of the
\* error body (undefined) is kept and the run goes on
AuthenticateFailNoThrow ==
    /\ pc = "auth"
    /\ \E status \in {401, 500} :
          /\ pc' = "load"
          /\ error' = error
          /\ run' = [run EXCEPT !.tokenRequests = @ + 1,
                                !.error = <<"auth", status>>]
    /\ UNCHANGED <<now, source, bookmarkFile, outputFile, accessToken,
                   bookmark, response, logs, existingLogs, totalLogsPulled,
                   hasMore, prev, interruptedLast, peer, seed>>

AuthenticateFail ==
    /\ pc = "auth"
    /\ \E status \in {401, 500} :
          /\ pc' = "failed"
          /\ error' = <<"auth", status>>
          /\ run' = [run EXCEPT !.tokenRequests = @ + 1,
                                !.outcome = "failed",
                                !.error = <<"auth", status>>]
    /\ UNCHANGED <<now, source, bookmarkFile, outputFile, accessToken,
                   bookmark, response, logs, existingLogs, totalLogsPulled,
                   hasMore, prev, interruptedLast, peer, seed>>

(* --------------------------- loadBookmark ----------------------------- *)
\* LoadedBookmark with the fault of not consulting the bookmark file
LoadedBookmarkAlwaysSeed(file, t) == SeedLocator(t)

\* readFile + JSON.parse + bookmark.nextUrl; the catch builds the seed
LoadedBookmark(file, t) ==
    IF file.kind = "valid" THEN file.nextUrl
    ELSE IF file.kind = "nolocator" THEN Undefined
    ELSE SeedLocator(t)

LoadBookmark ==
    /\ pc = "load"
    /\ bookmark' = LoadedBookmark(bookmarkFile, now)
    /\ totalLogsPulled' = 0
    /\ hasMore' = TRUE
    /\ pc' = "fetch"
    /\ run' = [run EXCEPT !.start = LoadedBookmark(bookmarkFile, now)]
    /\ UNCHANGED <<now, source, bookmarkFile, outputFile, accessToken,
                   response, logs, existingLogs, error, prev, interruptedLast,
                   peer, seed>>

(* ----------------------------- fetchLogs ------------------------------ *)
\* AfterFetch with the fault of saving the bookmark before the append
AfterFetchSaveFirst(page) ==
    IF Len(page.results) > 0 THEN "save" ELSE "caughtUp"

\* where pullLogs goes after a page arrived
AfterFetch(page) == IF Len(page.results) > 0 THEN "appendRead" ELSE "caughtUp"

FetchLogsOk ==
    /\ pc = "fetch"
    /\ accessToken # Null
    /\ IsLocator(bookmark)
    /\ Len(run.gets) < MaxFetches
    /\ \E page \in Pages :
          /\ source[PageOf(bookmark)] \in {Unasked, page}
          /\ source' = [source EXCEPT ![PageOf(bookmark)] = page]
          /\ response' = ResponseOf(PageOf(bookmark), page)
          /\ logs' = ResponseOf(PageOf(bookmark), page).results
          /\ pc' = AfterFetch(ResponseOf(PageOf(bookmark), page))
    /\ run' = [run EXCEPT !.gets = Append(@, bookmark),
                          !.fetched = Append(@, PageOf(bookmark))]
    /\ UNCHANGED <<now, bookmarkFile, outputFile, accessToken,
                   bookmark, existingLogs, totalLogsPulled, hasMore, error,
                   prev, interruptedLast, peer, seed>>

\* FetchLogsFail with the fault of catching the failed GET inside the loop,
\* which goes round again
FetchLogsFailRetry ==
    /\ pc = "fetch"
    /\ accessToken # Null
    /\ IsLocator(bookmark)
    /\ Len(run.gets) < MaxFetches
    /\ \E status \in {401, 500} :
          /\ pc' = "delay"
          /\ error' = error
          /\ run' = [run EXCEPT !.gets = Append(@, bookmark),
                                !.error = <<"fetch", status>>]
    /\ UNCHANGED <<now, source, bookmarkFile, outputFile, accessToken,
                   bookmark, response, logs, existingLogs, totalLogsPulled,
                   hasMore, prev, interruptedLast, peer, seed>>

\* FetchLogsFail with the fault of answering a failed GET by asking for a
\* new token and going on
FetchLogsFailReauth ==
    /\ pc = "fetch"
    /\ accessToken # Null
    /\ IsLocator(bookmark)
    /\ Len(run.gets) < MaxFetches
    /\ \E status \in {401, 500} :
          /\ pc' = "auth"
          /\ error' = error
          /\ run' = [run EXCEPT !.gets = Append(@, bookmark),
                                !.error = <<"fetch", status>>]
    /\ UNCHANGED <<now, source, bookmarkFile, outputFile, accessToken,
                   bookmark, response, logs, existingLogs, totalLogsPulled,
                   hasMore, prev, interruptedLast, peer, seed>>

\* FetchLogsFail with the fault of sending the GET without a token, which
\* the source answers with 401
FetchLogsFailNoGuard ==
    /\ pc = "fetch"
    /\ Len(run.gets) < MaxFetches
    /\ pc' = "failed"
    /\ error' = <<"fetch", 401>>
    /\ run' = [run EXCEPT !.gets = Append(@, bookmark),
                          !.outcome = "failed",
                          !.error = <<"fetch", 401>>]
    /\ UNCHANGED <<now, source, bookmarkFile, outputFile, accessToken,
                   bookmark, response, logs, existingLogs, totalLogsPulled,
                   hasMore, prev, interruptedLast, peer, seed>>

\* no token: throws before any request; a bookmark that is no URL: fetch()
\* rejects before any request; otherwise the GET is answered with an error
FetchLogsFail ==
    /\ pc = "fetch"
    /\ IF accessToken = Null
       THEN /\ pc' = "failed"
            /\ error' = <<"notauth", 0>>
            /\ run' = [run EXCEPT !.outcome = "failed",
                                  !.error = <<"notauth", 0>>]
       ELSE IF ~IsLocator(bookmark)
       THEN /\ pc' = "failed"
            /\ error' = <<"badurl", 0>>
            /\ run' = [run EXCEPT !.outcome = "failed",
                                  !.error = <<"badurl", 0>>]
       ELSE /\ Len(run.gets) < MaxFetches
            /\ \E status \in {401, 500} :
                  /\ pc' = "failed"
                  /\ error' = <<"fetch", status>>
                  /\ run' = [run EXCEPT !.gets = Append(@, bookmark),
                                        !.outcome = "failed",
                                        !.error = <<"fetch", status>>]
    /\ UNCHANGED <<now, source, bookmarkFile, outputFile, accessToken,
                   bookmark, response, logs, existingLogs, totalLogsPulled,
                   hasMore, prev, interruptedLast, peer, seed>>

(* -------------------------- appendLogsToFile -------------------------- *)
\* readFile + JSON.parse, the catch leaving the empty array
ExistingLogs(file) == IF file.kind = "valid" THEN file.logs ELSE <<>>

\* where pullLogs goes after the page's records were appended
AfterAppend(page) == IF page.next # NoNext THEN "save" ELSE "delay"

\* HasMoreAfterAppend with the fault of not ending the loop on a page
\* without `next`
HasMoreAlways(page) == TRUE

\* hasMore after the page's records were appended
HasMoreAfterAppend(page) == page.next # NoNext

AppendRead ==
    /\ pc = "appendRead"
    /\ IF Len(logs) = 0
       THEN /\ pc' = AfterAppend(response)
            /\ existingLogs' = existingLogs
       ELSE /\ pc' = "appendWrite"
            /\ existingLogs' = ExistingLogs(outputFile)
    /\ UNCHANGED <<now, source, bookmarkFile, outputFile, accessToken,
                   bookmark, response, logs, totalLogsPulled, hasMore, error,
                   run, prev, interruptedLast, peer, seed>>

AppendWrite ==
    /\ pc = "appendWrite"
    /\ outputFile' = OutputData(existingLogs \o logs)
    /\ totalLogsPulled' = totalLogsPulled + Len(logs)
    /\ pc' = AfterAppend(response)
    /\ hasMore' = HasMoreAfterAppend(response)
    /\ run' = [run EXCEPT !.appended = Append(@, PageOf(bookmark))]
    /\ UNCHANGED <<now, source, bookmarkFile, accessToken, bookmark, response,
                   logs, existingLogs, error, prev, interruptedLast, peer,
                   seed>>

(* ---------------------------- saveBookmark ---------------------------- *)
SaveBookmark ==
    /\ pc = "save"
    /\ bookmarkFile' = BookmarkData(response.next, now, FALSE)
    /\ bookmark' = response.next
    /\ pc' = "delay"
    /\ UNCHANGED <<now, source, outputFile, accessToken, response, logs,
                   existingLogs, totalLogsPulled, hasMore, error, run, prev,
                   interruptedLast, peer, seed>>

\* CaughtUp with the fault of saving the `next` of the empty page when it
\* has one
CaughtUpAdvances ==
    /\ pc = "caughtUp"
    /\ hasMore' = FALSE
    /\ bookmarkFile' = BookmarkData(IF response.next # NoNext
                                    THEN response.next ELSE bookmark,
                                    now, TRUE)
    /\ pc' = "delay"
    /\ UNCHANGED <<now, source, outputFile, accessToken, bookmark, response,
                   logs, existingLogs, totalLogsPulled, error, run, prev,
                   interruptedLast, peer, seed>>

\* CaughtUp with the fault of leaving hasMore set
CaughtUpKeepsLooping ==
    /\ pc = "caughtUp"
    /\ hasMore' = hasMore
    /\ bookmarkFile' = BookmarkData(bookmark, now, TRUE)
    /\ pc' = "delay"
    /\ UNCHANGED <<now, source, outputFile, accessToken, bookmark, response,
                   logs, existingLogs, totalLogsPulled, error, run, prev,
                   interruptedLast, peer, seed>>

\* the else branch of pullLogs: no logs returned
CaughtUp ==
    /\ pc = "caughtUp"
    /\ hasMore' = FALSE
    /\ bookmarkFile' = BookmarkData(bookmark, now, TRUE)
    /\ pc' = "delay"
    /\ UNCHANGED <<now, source, outputFile, accessToken, bookmark, response,
                   logs, existingLogs, totalLogsPulled, error, run, prev,
                   interruptedLast, peer, seed>>

\* the 100 ms pause, then the while test
Delay ==
    /\ pc = "delay"
    /\ pc' = IF hasMore THEN "fetch" ELSE "done"
    /\ run' = [run EXCEPT !.outcome = IF hasMore THEN @ ELSE "done"]
    /\ UNCHANGED <<now, source, bookmarkFile, outputFile, accessToken,
                   bookmark, response, logs, existingLogs, totalLogsPulled,
                   hasMore, error, prev, interruptedLast, peer, seed>>

(* ------------------------------ crashes ------------------------------- *)
\* the process dies: what it held in memory is gone
Dies ==
    /\ pc' = "crashed"
    /\ accessToken' = Null
    /\ bookmark' = Null
    /\ response' = NoResponse
    /\ logs' = <<>>
    /\ existingLogs' = <<>>
    /\ totalLogsPulled' = 0
    /\ hasMore' = TRUE
    /\ run' = [run EXCEPT !.outcome = "crashed"]
    /\ UNCHANGED <<now, source, error, prev, interruptedLast, peer, seed>>

\* killed between two steps
Crash ==
    /\ pc \in Running
    /\ Dies
    /\ UNCHANGED <<bookmarkFile, outputFile>>

\* what a cut-short write of the array `all` leaves: text that does not
\* parse, holding the first k records
TornData(all, k) == [kind |-> "corrupt", logs |-> SubSeq(all, 1, k)]

\* killed inside fs.writeFile(this.outputFile, ...): the file is cut short
TornAppend ==
    /\ pc = "appendWrite"
    /\ \E k \in 0..Len(existingLogs \o logs) :
          outputFile' = TornData(existingLogs \o logs, k)
    /\ Dies
    /\ UNCHANGED bookmarkFile

\* killed inside fs.writeFile(this.bookmarkFile, ...)
TornBookmark ==
    /\ pc \in {"save", "caughtUp"}
    /\ bookmarkFile' = BookmarkFileOf("invalid")
    /\ Dies
    /\ UNCHANGED outputFile

(* ------------------------------- Spec --------------------------------- *)
Step ==
    \/ AuthenticateOk
    \/ AuthenticateFail
    \/ LoadBookmark
    \/ FetchLogsOk
    \/ FetchLogsFail
    \/ AppendRead
    \/ AppendWrite
    \/ SaveBookmark
    \/ CaughtUp
    \/ Delay

Next ==
    \/ StartRun
    \/ CallFetchLogs
    \/ Step
    \/ Crash
    \/ TornAppend
    \/ TornBookmark

Spec == Init /\ [][Next]_vars

\* Runs that no crash interrupts; a started step of the program is taken.
NextNoCrash ==
    \/ StartRun
    \/ Step

FairSpec == Init /\ [][NextNoCrash]_vars /\ WF_vars(Step)

(* --------------------------- two instances ---------------------------- *)
\* What the steps of the second instance leave alone.
firstVars == <<now, pc, accessToken, bookmark, response, logs, existingLogs,
               totalLogsPulled, hasMore, error, run, prev, interruptedLast,
               seed>>

\* The first instance is run once.
StartFirst ==
    /\ now = 0
    /\ StartRun

\* A second process is started while the first one runs:
\* new TrelicaLogPuller(config); logPuller.pullLogs()
PeerStart ==
    /\ peer.pc = "idle"
    /\ pc \in Running
    /\ peer' = [NoPeer EXCEPT !.pc = "auth"]
    /\ UNCHANGED <<firstVars, source, bookmarkFile, outputFile>>

PeerAuthenticate ==
    /\ peer.pc = "auth"
    /\ \E ok \in BOOLEAN :
          peer' = IF ok
                  THEN [peer EXCEPT !.pc = "load", !.accessToken = BearerToken]
                  ELSE [peer EXCEPT !.pc = "failed"]
    /\ UNCHANGED <<firstVars, source, bookmarkFile, outputFile>>

PeerLoadBookmark ==
    /\ peer.pc = "load"
    /\ peer' = [peer EXCEPT !.pc = "fetch",
                            !.bookmark = LoadedBookmark(bookmarkFile, now),
                            !.totalLogsPulled = 0,
                            !.hasMore = TRUE]
    /\ UNCHANGED <<firstVars, source, bookmarkFile, outputFile>>

PeerFetchLogsOk ==
    /\ peer.pc = "fetch"
    /\ peer.accessToken # Null
    /\ IsLocator(peer.bookmark)
    /\ peer.gets < MaxFetches
    /\ \E page \in Pages :
          /\ source[PageOf(peer.bookmark)] \in {Unasked, page}
          /\ source' = [source EXCEPT ![PageOf(peer.bookmark)] = page]
          /\ peer' = [peer EXCEPT
                !.response = ResponseOf(PageOf(peer.bookmark), page),
                !.logs = ResponseOf(PageOf(peer.bookmark), page).results,
                !.pc = AfterFetch(ResponseOf(PageOf(peer.bookmark), page)),
                !.gets = @ + 1]
    /\ UNCHANGED <<firstVars, bookmarkFile, outputFile>>

PeerFetchLogsFail ==
    /\ peer.pc = "fetch"
    /\ (peer.accessToken # Null /\ IsLocator(peer.bookmark))
          => peer.gets < MaxFetches
    /\ peer' = [peer EXCEPT !.pc = "failed"]
    /\ UNCHANGED <<firstVars, source, bookmarkFile, outputFile>>

PeerAppendRead ==
    /\ peer.pc = "appendRead"
    /\ peer' = IF Len(peer.logs) = 0
               THEN [peer EXCEPT !.pc = AfterAppend(peer.response)]
               ELSE [peer EXCEPT !.pc = "appendWrite",
                                 !.existingLogs = ExistingLogs(outputFile)]
    /\ UNCHANGED <<firstVars, source, bookmarkFile, outputFile>>

\* PeerAppendWrite with the fault of reading the file again at the write
PeerAppendWriteReread ==
    /\ peer.pc = "appendWrite"
    /\ outputFile' = OutputData(ExistingLogs(outputFile) \o peer.logs)
    /\ peer' = [peer EXCEPT
          !.totalLogsPulled = @ + Len(peer.logs),
          !.pc = AfterAppend(peer.response),
          !.hasMore = HasMoreAfterAppend(peer.response),
          !.appended = Append(@, PageOf(peer.bookmark))]
    /\ UNCHANGED <<firstVars, source, bookmarkFile>>

PeerAppendWrite ==
    /\ peer.pc = "appendWrite"
    /\ outputFile' = OutputData(peer.existingLogs \o peer.logs)
    /\ peer' = [peer EXCEPT
          !.totalLogsPulled = @ + Len(peer.logs),
          !.pc = AfterAppend(peer.response),
          !.hasMore = HasMoreAfterAppend(peer.response),
          !.appended = Append(@, PageOf(peer.bookmark))]
    /\ UNCHANGED <<firstVars, source, bookmarkFile>>

PeerSaveBookmark ==
    /\ peer.pc = "save"
    /\ bookmarkFile' = BookmarkData(peer.response.next, now, FALSE)
    /\ peer' = [peer EXCEPT !.bookmark = peer.response.next, !.pc = "delay"]
    /\ UNCHANGED <<firstVars, source, outputFile>>

PeerCaughtUp ==
    /\ peer.pc = "caughtUp"
    /\ bookmarkFile' = BookmarkData(peer.bookmark, now, TRUE)
    /\ peer' = [peer EXCEPT !.hasMore = FALSE, !.pc = "delay"]
    /\ UNCHANGED <<firstVars, source, outputFile>>

PeerDelay ==
    /\ peer.pc = "delay"
    /\ peer' = [peer EXCEPT !.pc = IF peer.hasMore THEN "fetch" ELSE "done"]
    /\ UNCHANGED <<firstVars, source, bookmarkFile, outputFile>>

PeerStep ==
    \/ PeerAuthenticate
    \/ PeerLoadBookmark
    \/ PeerFetchLogsOk
    \/ PeerFetchLogsFail
    \/ PeerAppendRead
    \/ PeerAppendWrite
    \/ PeerSaveBookmark
    \/ PeerCaughtUp
    \/ PeerDelay

\* Two instances, each run once, their steps interleaved in any order.
TwoNext ==
    \/ StartFirst
    \/ Step
    \/ PeerStart
    \/ PeerStep

TwoSpec == Init /\ [][TwoNext]_vars

(* ------------------------- the seed in months ------------------------- *)
\* INITIAL_LOOKBACK_MONTHS: not set, or a number of months
EnvMonths == {Undefined} \cup {<<"num", n>> : n \in 0..MaxMonths}

\* the days new Date() can give
IsLeap(y) == (y % 4 = 0 /\ y % 100 # 0) \/ y % 400 = 0
DaysInMonth(y, m) ==
    IF m = 2 THEN (IF IsLeap(y) THEN 29 ELSE 28)
    ELSE IF m \in {4, 6, 9, 11} THEN 30 ELSE 31
Years == {2023, 2024}
Dates ==
    {<<y, m, d>> : y \in Years, m \in 1..12, d \in 1..31} \
    {<<y, m, d>> \in Years \X (1..12) \X (1..31) : d > DaysInMonth(y, m)}

\* parseInt(process.env.INITIAL_LOOKBACK_MONTHS) || 3 and
\* config.initialLookbackMonths || 3: NaN and 0 are falsy
OrThree(v) == IF v = Undefined \/ v = <<"num", 0>> THEN 3 ELSE v[2]

\* Date.prototype.setMonth(index) on the date d, index counted from 0 and
\* of any sign: the year and month are carried, the day of the month is
\* kept, and a day the month does not have runs over into the next month
SetMonth(d, index) ==
    LET y == d[1] + (index \div 12)
        m == (index % 12) + 1
    IN  IF d[3] <= DaysInMonth(y, m) THEN <<y, m, d[3]>>
        ELSE IF m = 12 THEN <<y + 1, 1, d[3] - DaysInMonth(y, m)>>
        ELSE <<y, m + 1, d[3] - DaysInMonth(y, m)>>

\* `https://${host}/api/audit/v1/logs?limit=1000&since=${...}`
SeedUrl(since) ==
    [path |-> "/api/audit/v1/logs", limit |-> 1000, since |-> since]

\* the environment and the clock of one start of the program
SeedInput ==
    /\ seed.pc = "none"
    /\ \E e \in EnvMonths, d \in Dates :
          seed' = [NoSeed EXCEPT !.pc = "main", !.env = e, !.date = d]
    /\ UNCHANGED <<now, source, bookmarkFile, outputFile, pc, accessToken,
                   bookmark, response, logs, existingLogs, totalLogsPulled,
                   hasMore, error, run, prev, interruptedLast, peer>>

\* main builds the config, the constructor takes it over
SeedConstructor ==
    /\ seed.pc = "main"
    /\ seed' = [seed EXCEPT
          !.pc = "constructed",
          !.initialLookbackMonths = OrThree(<<"num", OrThree(seed.env)>>)]
    /\ UNCHANGED <<now, source, bookmarkFile, outputFile, pc, accessToken,
                   bookmark, response, logs, existingLogs, totalLogsPulled,
                   hasMore, error, run, prev, interruptedLast, peer>>

\* loadBookmark: the catch branch builds the seed bookmark
SeedLoadBookmark ==
    /\ seed.pc = "constructed"
    /\ seed' = [seed EXCEPT
          !.pc = "loaded",
          !.bookmark =
              IF bookmarkFile.kind = "valid" THEN bookmarkFile.nextUrl
              ELSE IF bookmarkFile.kind = "nolocator" THEN Undefined
              ELSE SeedUrl(SetMonth(seed.date,
                        (seed.date[2] - 1) - seed.initialLookbackMonths))]
    /\ UNCHANGED <<now, source, bookmarkFile, outputFile, pc, accessToken,
                   bookmark, response, logs, existingLogs, totalLogsPulled,
                   hasMore, error, run, prev, interruptedLast, peer>>

SeedNext ==
    \/ SeedInput
    \/ SeedConstructor
    \/ SeedLoadBookmark

SeedSpec == Init /\ [][SeedNext]_vars

(* ----------------------------- helpers -------------------------------- *)
Range(s) == {s[i] : i \in 1..Len(s)}
Last(s) == s[Len(s)]
IsSuffix(s, t) ==
    /\ Len(s) <= Len(t)
    /\ SubSeq(t, Len(t) - Len(s) + 1, Len(t)) = s
Occurrences(x, s) == Cardinality({i \in 1..Len(s) : s[i] = x})

(* ------------------------ what a full pull yields --------------------- *)
\* The pages with records that one uninterrupted run starting at page p
\* walks through: it stops at an empty page and after a page without `next`.
RECURSIVE Chain(_, _)
Chain(p, fuel) ==
    IF fuel = 0 \/ source[p] = Unasked \/ source[p].n = 0 THEN {}
    ELSE {p} \cup (IF source[p].next = NoNext THEN {}
                   ELSE Chain(PageOf(source[p].next), fuel - 1))
\* The records such a run, started from the seed, puts into the sink.
ExpectedRecords ==
    UNION {Range(RecordsOf(p, source[p])) : p \in Chain(0, MaxPage + 1)}

(* ------------------------------- C1 ----------------------------------- *)
\* A step that writes a continuation locator to the bookmark file (whole or
\* cut short by a crash): every write of the file except the caught-up one.
WritesNextToBookmark == bookmarkFile' # bookmarkFile /\ pc # "caughtUp"

\* C1 (ordering invariant): whenever a step writes the `next` of the page
\* fetched in this iteration to the bookmark file, the records of that page
\* are already in the output file (appendLogsToFile has completed); this
\* holds in every run, crashed or not.
C1_BookmarkAfterRecords ==
    [][WritesNextToBookmark =>
          /\ pc = "save"
          /\ response.next # NoNext
          /\ bookmarkFile'.kind = "valid" => bookmarkFile'.nextUrl = response.next
          /\ Len(response.results) > 0
          /\ outputFile.kind = "valid"
          /\ IsSuffix(response.results, outputFile.logs)
          /\ Len(run.appended) = Len(run.fetched)]_vars

\* C1 witness: the bookmark file holds the `next` of the page just fetched
\* and the page's records end the output file.
C1_Witness ==
    /\ pc = "delay"
    /\ response.next # NoNext
    /\ bookmarkFile.kind = "valid"
    /\ bookmarkFile.nextUrl = response.next
    /\ Len(response.results) > 0
    /\ outputFile.kind = "valid"
    /\ IsSuffix(response.results, outputFile.logs)

(* ------------------------------- C2 ----------------------------------- *)
\* C2 (monotonic resume), as claimed: when a run completes, whatever runs
\* were aborted before it, the sink holds exactly the records one
\* uninterrupted run would have produced, and a record is there more than
\* once only if its page was the last page fetched by an aborted run.
C2_MonotonicResume ==
    pc = "done" =>
        /\ Range(ExistingLogs(outputFile)) = ExpectedRecords
        /\ \A r \in Range(ExistingLogs(outputFile)) :
              Occurrences(r, ExistingLogs(outputFile)) > 1
                  => r[1] \in interruptedLast

(* ------------------------------- C3 ----------------------------------- *)
\* C3 (incremental sync), as claimed: in a run that follows a run completed
\* without error, no page the previous run appended is appended again.
C3_NoRepeatAfterCompletedRun ==
    prev.outcome = "done" => Range(run.appended) \cap Range(prev.appended) = {}

(* ------------------------------- C4 ----------------------------------- *)
\* C4 (bookmark after every page), as claimed: once a run has dealt with a
\* fetched page, and so when it completes, the bookmark file holds a
\* bookmark written in this run.
C4_BookmarkAfterEveryPage ==
    pc \in {"delay", "done"} =>
        /\ bookmarkFile.kind = "valid"
        /\ bookmarkFile.lastUpdated = now

(* ------------------------------- C5 ----------------------------------- *)
\* The run started from a persisted bookmark for whose locator the source
\* returns zero records.
StartedCaughtUp ==
    /\ run.bookmark0.kind = "valid"
    /\ IsLocator(run.bookmark0.nextUrl)
    /\ source[PageOf(run.bookmark0.nextUrl)] # Unasked
    /\ source[PageOf(run.bookmark0.nextUrl)].n = 0

\* C5 (idempotent catch-up): in a run started from a persisted bookmark whose
\* page is empty, and so in every repetition of it, the output file stays as
\* it was, the total stays 0 and the bookmark file keeps the locator it had
\* (the one exception being a process killed while it writes the file).
C5_IdempotentCatchUp ==
    StartedCaughtUp =>
        /\ outputFile = run.output0
        /\ run.appended = <<>>
        /\ totalLogsPulled = 0
        /\ \/ /\ bookmarkFile.kind = "valid"
              /\ bookmarkFile.nextUrl = run.bookmark0.nextUrl
           \/ /\ pc = "crashed"
              /\ bookmarkFile = BookmarkFileOf("invalid")

\* C5 witness: a run that started caught up has completed and has written
\* the bookmark again, with the note, over a bookmark that had the note.
C5_Witness ==
    /\ pc = "done"
    /\ StartedCaughtUp
    /\ run.bookmark0.note
    /\ bookmarkFile.note
    /\ bookmarkFile.lastUpdated = now
    /\ bookmarkFile.nextUrl = run.bookmark0.nextUrl
    /\ totalLogsPulled = 0

(* ------------------------------- C6 ----------------------------------- *)
\* The run r has fetched, as its n-th request, a page with records and no
\* continuation locator.
LastPageFetched(r, n) ==
    /\ run.id = r
    /\ Len(run.gets) = n
    /\ pc = "appendRead"
    /\ Len(response.results) > 0
    /\ response.next = NoNext

\* C6 (pagination termination): after the fetch of a page with records and
\* no continuation locator, the run reaches its end without error, having
\* issued no further request, with the page's records at the end of the
\* output file.
C6_PaginationTermination ==
    \A r \in 1..MaxRuns : \A n \in 1..MaxFetches :
        LastPageFetched(r, n) ~>
            /\ run.id = r
            /\ pc = "done"
            /\ Len(run.gets) = n
            /\ outputFile.kind = "valid"
            /\ IsSuffix(response.results, outputFile.logs)
            /\ run.appended = run.fetched

\* C6 witness: a run completed on a page with records and no `next`.
C6_Witness ==
    /\ pc = "done"
    /\ Len(response.results) > 0
    /\ response.next = NoNext
    /\ IsSuffix(response.results, outputFile.logs)

(* ------------------------------- C7 ----------------------------------- *)
\* C7 (token request rejected): a run whose token request got a non-success
\* status has ended in error, has issued no data request and has left the
\* bookmark file and the output file as they were when it started.
C7_AuthFailureTouchesNothing ==
    run.error[1] = "auth" =>
        /\ pc = "failed"
        /\ error = run.error
        /\ run.gets = <<>>
        /\ bookmarkFile = run.bookmark0
        /\ outputFile = run.output0

\* C7 witness: a rejected token request in a run that found files left by an
\* earlier run.
C7_Witness ==
    /\ pc = "failed"
    /\ error[1] = "auth"
    /\ run.bookmark0.kind = "valid"
    /\ Len(ExistingLogs(run.output0)) > 0
    /\ bookmarkFile = run.bookmark0
    /\ outputFile = run.output0

(* ------------------------------- C8 ----------------------------------- *)
\* The state a run is in when one of its data requests has failed: it has
\* ended in error at once, every page it fetched before is appended and its
\* `next` persisted, so that the bookmark file is as the last completed
\* iteration left it (as the run found it, if none completed).
AbortedAtFailedFetch ==
    /\ pc = "failed"
    /\ error = run.error
    /\ Len(run.gets) = Len(run.fetched) + 1
    /\ run.appended = run.fetched
    /\ bookmark = Last(run.gets)
    /\ IF Len(run.fetched) = 0
       THEN /\ bookmarkFile = run.bookmark0
            /\ outputFile = run.output0
       ELSE /\ bookmarkFile.kind = "valid"
            /\ bookmarkFile.nextUrl = Last(run.gets)
            /\ outputFile.kind = "valid"
            /\ IsSuffix(RecordsOf(Last(run.fetched), source[Last(run.fetched)]),
                        outputFile.logs)

\* The previous run ended on a failed data request and this run has issued
\* its first data request.
RetryAfterFailedFetch ==
    /\ prev.error[1] = "fetch"
    /\ Len(run.gets) > 0

\* The failed request of the previous run went to a locator held by the
\* bookmark file (loaded from it, or saved to it by an earlier iteration).
PrevFailedOnPersistedLocator ==
    prev.bookmark0.kind = "valid" \/ Len(prev.gets) > 1

C9_StartingCursor ==
    (pc = "fetch" /\ run.gets = <<>>) =>
        /\ bookmark # Undefined
        /\ bookmark = IF bookmarkFile.kind = "valid"
                      THEN bookmarkFile.nextUrl
                      ELSE SeedLocator(now)

(* ------------------------------- C10 ---------------------------------- *)
\* C10 (token refresh), as claimed: a data request rejected as unauthorized
\* does not make the run fail.
C10_UnauthorizedDoesNotFail ==
    ~(pc = "failed" /\ error = <<"fetch", 401>>)

IsPrefix(s, t) ==
    /\ Len(s) <= Len(t)
    /\ SubSeq(t, 1, Len(s)) = s

\* C12 (append-only sink): every step of appendLogsToFile that the process
\* survives leaves the records the output file held before it, in their
\* order, as a prefix of the records the file holds after it, whatever the
\* file was: absent, an array, or text that does not parse.
C12_AppendOnly ==
    [][(pc \in {"appendRead", "appendWrite"} /\ pc' # "crashed")
          => IsPrefix(outputFile.logs, outputFile'.logs)]_vars

(* ------------------------------- C13 ---------------------------------- *)
\* the last page the run r fetched had no records
EndedOnEmptyPage(r) ==
    /\ r.fetched # <<>>
    /\ source[Last(r.fetched)].n = 0

\* C13 (empty page): once the else branch has handled a page without
\* records, with or without `next`, the loop is over (hasMore is false and
\* that fetch stays the last one of the run), the bookmark file holds the
\* locator that was just fetched with the caught-up note, and not the
\* `next` of the page; the first fetch of the run after a run completed
\* that way goes to that same locator.
C13_EmptyPageKeepsLocator ==
    /\ (pc \in {"delay", "done"} /\ EndedOnEmptyPage(run)) =>
          /\ ~hasMore
          /\ Len(run.gets) = Len(run.fetched)
          /\ bookmark = Last(run.gets)
          /\ bookmarkFile = BookmarkData(Last(run.gets), now, TRUE)
    /\ (prev.outcome = "done" /\ EndedOnEmptyPage(prev) /\ run.gets # <<>>) =>
          run.gets[1] = Last(prev.gets)

\* C13 witness: a run completed on an empty page that carried a `next`
\* other than the locator fetched, and the following run has fetched.
C13_Witness ==
    /\ prev.outcome = "done"
    /\ EndedOnEmptyPage(prev)
    /\ source[Last(prev.fetched)].next # NoNext
    /\ source[Last(prev.fetched)].next # Last(prev.gets)
    /\ run.gets # <<>>
    /\ run.gets[1] = Last(prev.gets)

(* ------------------------------- C14 ---------------------------------- *)
\* the records of the pages ps, page after page, each in its own order
RECURSIVE RecordsOfPages(_)
RecordsOfPages(ps) ==
    IF ps = <<>> THEN <<>>
    ELSE RecordsOf(Head(ps), source[Head(ps)]) \o RecordsOfPages(Tail(ps))

\* C14 (what a completed run leaves): when a run has completed, the
\* output file is an array holding the records the file held before the
\* run followed by the records of the pages the run fetched, in fetch
\* order, and totalLogsPulled is the number of records the run added.
C14_OutputIsOldPlusFetched ==
    pc = "done" =>
        /\ outputFile.kind \in {"valid", "absent"}
        /\ outputFile.logs = run.output0.logs \o RecordsOfPages(run.fetched)
        /\ totalLogsPulled = Len(RecordsOfPages(run.fetched))

(* ------------------------------- C15 ---------------------------------- *)
\* C15 (no data request without a token): a fetchLogs call made while no
\* token is held has failed with no GET sent, the bookmark and the token
\* still unset and both files as they were; and whenever a GET has been
\* sent, it was sent by a pullLogs run whose one token request succeeded.
C15_NoFetchWithoutToken ==
    /\ run.error = <<"notauth", 0>> =>
          /\ pc = "failed"
          /\ run.gets = <<>>
          /\ accessToken = Null
          /\ bookmark = Null
          /\ bookmarkFile = run.bookmark0
          /\ outputFile = run.output0
    /\ run.gets # <<>> =>
          /\ run.call = "pullLogs"
          /\ run.tokenRequests = 1
          /\ run.error[1] # "auth"
    /\ (pc = "fetch" /\ run.call = "pullLogs") => accessToken = BearerToken

\* C15 witness: fetchLogs was called on an instance that never
\* authenticated, after an earlier run had saved a bookmark and records,
\* and has thrown.
C15_Witness ==
    /\ run.call = "fetchLogs"
    /\ run.error = <<"notauth", 0>>
    /\ pc = "failed"
    /\ bookmarkFile.kind = "valid"
    /\ outputFile.logs # <<>>

(* ------------------------------- C16 ---------------------------------- *)
\* Following `next` from page p never comes to an end: every page on the
\* way has records and a `next`, for more steps than there are pages.
RECURSIVE NeverEnds(_, _)
NeverEnds(p, fuel) ==
    IF source[p] = Unasked \/ source[p].n = 0 \/ source[p].next = NoNext
    THEN FALSE
    ELSE IF fuel = 0 THEN TRUE
    ELSE NeverEnds(PageOf(source[p].next), fuel - 1)

\* the source has shown a chain of `next` locators that is not finite
InfiniteChain == \E p \in PageIds : NeverEnds(p, MaxPage + 1)

\* C16 (run termination): every pullLogs run that has started comes to an
\* end, completed or failed, unless the source has shown a chain of `next`
\* locators that never reaches an empty page or a page without `next`.
C16_RunTerminates ==
    \A r \in 1..MaxRuns :
        (run.id = r /\ pc \in Running)
            ~> ((run.id = r /\ pc \in {"done", "failed"}) \/ InfiniteChain)

\* C16 witness: a run has completed after as many fetches as the model
\* allows, against a source whose chains all end.
C16_Witness ==
    /\ pc = "done"
    /\ Len(run.fetched) = MaxFetches
    /\ ~InfiniteChain

(* ------------------------------- C17 ---------------------------------- *)
\* the `next` values the source has returned to the run r
NextsReturned(r) ==
    {source[p].next : p \in Range(r.fetched)} \ {NoNext}

\* C17 (opaque locator): a bookmark the run has put into the bookmark file
\* holds, as it was, either the locator the run started from (loaded from
\* the file or built as the seed) or a `next` the source returned in the
\* run.
C17_LocatorOpaque ==
    (bookmarkFile # run.bookmark0 /\ bookmarkFile.kind = "valid") =>
        /\ IsLocator(bookmarkFile.nextUrl)
        /\ bookmarkFile.nextUrl \in {run.start} \cup NextsReturned(run)

\* C17 witness: a run has saved a `next` the source returned, which is not
\* the locator the run started from.
C17_Witness ==
    /\ bookmarkFile # run.bookmark0
    /\ bookmarkFile.kind = "valid"
    /\ bookmarkFile.nextUrl # run.start
    /\ bookmarkFile.nextUrl \in NextsReturned(run)

(* ------------------------------- C18 ---------------------------------- *)
\* the records of the pages ps are all in the output file
InOutputFile(ps) ==
    \A p \in Range(ps) :
        Range(RecordsOf(p, source[p])) \subseteq Range(outputFile.logs)

\* C18 (lost update): with two instances on the same files, a write of
\* appendLogsToFile puts back what that instance read before, followed by
\* its own page, whatever the other instance has written to the file in
\* between.
C18_StaleWriteBack ==
    [][/\ (pc = "appendWrite" /\ pc' # "appendWrite")
             => outputFile'.logs = existingLogs \o logs
       /\ (peer.pc = "appendWrite" /\ peer'.pc # "appendWrite")
             => outputFile'.logs = peer.existingLogs \o peer.logs]_vars

\* C18 witness: the second instance has written back a file it had read
\* before the first instance's write, and a record the first instance
\* appended is no longer in the output file.
C18_Witness ==
    /\ peer.appended # <<>>
    /\ run.appended # <<>>
    /\ ~InOutputFile(run.appended)

(* ------------------------------- C19 ---------------------------------- *)
\* the day n whole calendar months before the day d: the same day of the
\* month n months back, or the last day of that month if it is shorter
MonthsBefore(d, n) ==
    LET index == (d[2] - 1) - n
        y == d[1] + (index \div 12)
        m == (index % 12) + 1
    IN  <<y, m, IF d[3] <= DaysInMonth(y, m) THEN d[3] ELSE DaysInMonth(y, m)>>

\* the months asked for: the number configured, 3 when none is
MonthsConfigured(e) == IF e = Undefined THEN 3 ELSE e[2]

\* C19 (seed correctness): when loadBookmark finds no valid bookmark, the
\* locator it builds is the log-listing endpoint with limit=1000 and a
\* `since` N whole calendar months before now, N being the configured
\* number of months, 0 included, and 3 only when none is configured.
C19_SeedSince ==
    (seed.pc = "loaded" /\ bookmarkFile.kind \notin {"valid", "nolocator"}) =>
        seed.bookmark =
            SeedUrl(MonthsBefore(seed.date, MonthsConfigured(seed.env)))

====
